---- MODULE Spec2Model ----
(***************************************************************************)
(* Model of the recorder component of src/src/App.jsx (the second          *)
(* CameraRecorder, lines 289-593): the recording session (camera           *)
(* acquisition, countdown, encoder, deadline timer, teardown), the         *)
(* duration check on picked files and the upload.                          *)
(*                                                                         *)
(* Time is counted in whole seconds.  A timer that is due, and a queued    *)
(* encoder stop event, run before the clock advances again; animation      *)
(* frames, promise resolutions and user input may be delayed arbitrarily.  *)
(***************************************************************************)
EXTENDS Integers, Sequences, FiniteSets, TLC

\* ---- bounds of the model ------------------------------------------------
MaxCalls == 6        \* getUserMedia, start() and beginRecording calls, together
TimeStep == 20       \* seconds the clock advances at once while no countdown runs
MaxPicks == 2        \* files picked

\* ---- program constants --------------------------------------------------
CountdownFrom == 5
RecordSeconds == 60

ToleranceSeconds == 3

NoBlob == [rec |-> 0, chunks |-> << >>]
NoScore == -1
Err(kind, detail) == [kind |-> kind, detail |-> detail]
NoError == Err("none", 0)
Callers == {"button", "start"}
StartIds == 1..MaxCalls
RecorderIds == 1..MaxCalls
FileIds == 1..MaxPicks
PlayIds == [stream : 1..MaxCalls, caller : Callers]
FetchIds ==
    [file : RecorderIds, label : {"recorded"}] \cup [file : FileIds, label : {"uploaded"}]
NoDuration == [kind |-> "null", ms |-> 0]
DeadInterval == [armed |-> FALSE, remaining |-> 0, stream |-> 0, due |-> 0]

VARIABLES
    mounted,            \* the component is mounted (user input possible)
    status, countdown, secondsLeft, blobUrl, recordedBlob, error, accuracy,
    recorderRef, chunksRef, streamRef, countdownTimerRef, stopTimerRef,
    gums,               \* per caller: getUserMedia calls not yet settled
    plays,              \* ensureStream calls awaiting videoRef.current.play()
    streamStops,        \* per acquired stream: how often its tracks were stopped
    ivs,                \* countdown intervals created by start()
    begins,             \* per countdown interval: beginRecording calls it made
    recs,               \* MediaRecorder objects created by beginRecording
    revoked,            \* object URLs passed to URL.revokeObjectURL
    isSending, selectedFile, selectedDuration,
    picked,             \* files picked so far
    probes,             \* picked files whose duration probe is pending
    fetches             \* uploads in flight

vars == << mounted, status, countdown, secondsLeft, blobUrl, recordedBlob,
           error, accuracy, recorderRef, chunksRef, streamRef,
           countdownTimerRef, stopTimerRef, gums, plays, streamStops, ivs, begins,
           recs, revoked, isSending, selectedFile, selectedDuration, picked,
           probes, fetches >>

uploadVars == << isSending, selectedFile, selectedDuration, picked, probes, fetches >>

sessionVars == << mounted, status, countdown, secondsLeft, blobUrl, recordedBlob,
                  recorderRef, chunksRef, streamRef, countdownTimerRef,
                  stopTimerRef, gums, plays, streamStops, ivs, begins, recs,
                  revoked >>

uiVars == << status, countdown, secondsLeft, blobUrl, recordedBlob, error, accuracy >>

\* A state setter (setStatus, setError, ...): React drops the update once
\* the component is unmounted.
Set(old, new) == IF mounted THEN new ELSE old

Max(a, b) == IF a >= b THEN a ELSE b

Min(a, b) == IF a <= b THEN a ELSE b

\* The wall clock of a recorder is kept only while something can still read
\* it: the encoder itself, its deadline timer or its animation-frame tick.
ClockLive(x) == x.st = "recording" \/ x.timer \/ x.raf

Norm(rs) ==
    [r \in DOMAIN rs |-> IF ClockLive(rs[r]) THEN rs[r] ELSE [rs[r] EXCEPT !.age = 0]]

Recording == {r \in DOMAIN recs : recs[r].st = "recording"}

RECURSIVE SumSeq(_)
SumSeq(q) == IF q = << >> THEN 0 ELSE Head(q) + SumSeq(Tail(q))

Init ==
    /\ mounted = TRUE
    /\ status = "idle"
    /\ countdown = CountdownFrom
    /\ secondsLeft = RecordSeconds
    /\ blobUrl = 0
    /\ recordedBlob = NoBlob
    /\ error = NoError
    /\ accuracy = NoScore
    /\ recorderRef = 0
    /\ chunksRef = << >>
    /\ streamRef = 0
    /\ countdownTimerRef = 0
    /\ stopTimerRef = 0
    /\ gums = [c \in Callers |-> 0]
    /\ plays = {}
    /\ streamStops = << >>
    /\ ivs = << >>
    /\ begins = << >>
    /\ recs = << >>
    /\ revoked = {}
    /\ isSending = FALSE
    /\ selectedFile = 0
    /\ selectedDuration = NoDuration
    /\ picked = 0
    /\ probes = {}
    /\ fetches = {}

\* ---- ensureStream -------------------------------------------------------

\* start(), lines 338-351: the part after `await ensureStream()`.
StartContinue(stream) ==
    /\ chunksRef' = << >>
    /\ countdown' = Set(countdown, CountdownFrom)
    /\ status' = Set(status, "countdown")
    /\ ivs' = Append(ivs, [armed |-> TRUE, remaining |-> CountdownFrom,
                           stream |-> stream, due |-> 1])
    /\ begins' = Append(begins, 0)
    /\ countdownTimerRef' = Len(ivs) + 1

\* ensureStream calls suspended at an await.
Suspended == gums["button"] + gums["start"] + Cardinality(plays)

\* getUserMedia calls pending or resolved, start() calls and beginRecording
\* calls so far.
Calls ==
    gums["button"] + gums["start"] + Len(streamStops) + Len(ivs) + SumSeq(begins)

\* The `disabled` attributes of the three buttons, lines 510, 514 and 518.
OpenCameraEnabled == status \in {"idle", "ready"}

StartEnabled == status \in {"ready", "finished"}

StopEnabled == status \in {"recording", "countdown"}

\* The Open Camera button: ensureStream() called directly, lines 315-320.
OpenCamera ==
    /\ mounted
    /\ OpenCameraEnabled
    /\ IF streamRef # 0
       THEN UNCHANGED gums
       ELSE /\ Calls < MaxCalls
            /\ gums' = [gums EXCEPT !["button"] = @ + 1]
    /\ UNCHANGED << mounted, uiVars, recorderRef, chunksRef, streamRef,
                    countdownTimerRef, stopTimerRef, plays, streamStops, ivs,
                    begins, recs, revoked >>
    /\ UNCHANGED uploadVars

\* An ensureStream call runs to its end (lines 326-327) and, when start()
\* awaited it, start() continues.
AcqFinish(caller, stream) ==
    IF caller = "start"
    THEN /\ StartContinue(stream)
         /\ UNCHANGED << secondsLeft, blobUrl, recordedBlob, error, accuracy >>
    ELSE /\ status' = Set(status, "ready")
         /\ UNCHANGED << countdown, secondsLeft, blobUrl, recordedBlob, error,
                         accuracy, chunksRef, countdownTimerRef, ivs, begins >>

\* An ensureStream call rejects: start() catches it (lines 352-355), the
\* button's click handler does not.
AcqFail(caller) ==
    /\ IF caller = "start"
       THEN /\ error' = Set(error, Err("acquire", 0))
            /\ status' = Set(status, "error")
       ELSE UNCHANGED << error, status >>
    /\ UNCHANGED << countdown, secondsLeft, blobUrl, recordedBlob, accuracy,
                    chunksRef, countdownTimerRef, ivs, begins >>

\* getUserMedia resolves for a call made by the given caller, lines 317-325.
\* Assigning srcObject (line 323) reloads the video element, which rejects a
\* play() of an earlier call that is still pending; that call ends as in
\* AcqFail.  The video element is gone once the component is unmounted.
GumResolve(caller) ==
    /\ gums[caller] > 0
    /\ gums' = [gums EXCEPT ![caller] = @ - 1]
    /\ LET s == Len(streamStops) + 1 IN
        /\ streamStops' = Append(streamStops, 0)
        /\ streamRef' = s
        /\ IF mounted
           THEN /\ plays' = {[stream |-> s, caller |-> caller]}
                /\ IF \E p \in plays : p.caller = "start"
                   THEN /\ error' = Err("acquire", 0)
                        /\ status' = "error"
                   ELSE UNCHANGED << error, status >>
                /\ UNCHANGED << countdown, secondsLeft, blobUrl, recordedBlob,
                                accuracy, chunksRef, countdownTimerRef, ivs, begins >>
           ELSE /\ AcqFinish(caller, s)
                /\ UNCHANGED plays
    /\ UNCHANGED << mounted, recorderRef, stopTimerRef, recs, revoked >>
    /\ UNCHANGED uploadVars

\* getUserMedia rejects (permission denied, no device).
GumReject(caller) ==
    /\ gums[caller] > 0
    /\ gums' = [gums EXCEPT ![caller] = @ - 1]
    /\ AcqFail(caller)
    /\ UNCHANGED << mounted, recorderRef, streamRef, stopTimerRef, plays,
                    streamStops, recs, revoked >>
    /\ UNCHANGED uploadVars

\* videoRef.current.play() resolves, lines 324-327.
PlayResolve(p) ==
    /\ p \in plays
    /\ plays' = plays \ {p}
    /\ AcqFinish(p.caller, p.stream)
    /\ UNCHANGED << mounted, recorderRef, streamRef, stopTimerRef, gums,
                    streamStops, recs, revoked >>
    /\ UNCHANGED uploadVars

\* videoRef.current.play() rejects.
PlayReject(p) ==
    /\ p \in plays
    /\ plays' = plays \ {p}
    /\ AcqFail(p.caller)
    /\ UNCHANGED << mounted, recorderRef, streamRef, stopTimerRef, gums,
                    streamStops, recs, revoked >>
    /\ UNCHANGED uploadVars

\* ---- start / countdown / beginRecording ----------------------------------

\* The Start button, lines 330-351.  With a stream held, ensureStream
\* returns at once and the rest of start() runs in the same turn.
Start ==
    /\ mounted
    /\ StartEnabled
    /\ Calls < MaxCalls
    /\ error' = NoError
    /\ blobUrl' = 0
    /\ recordedBlob' = NoBlob
    /\ accuracy' = NoScore
    /\ IF streamRef # 0
       THEN /\ StartContinue(streamRef)
            /\ UNCHANGED gums
       ELSE /\ Calls < MaxCalls
            /\ gums' = [gums EXCEPT !["start"] = @ + 1]
            /\ UNCHANGED << status, countdown, chunksRef, countdownTimerRef, ivs, begins >>
    /\ UNCHANGED << mounted, secondsLeft, recorderRef, streamRef, stopTimerRef,
                    plays, streamStops, recs, revoked >>
    /\ UNCHANGED uploadVars

\* clearInterval(id): the interval with that id never fires again.
ClearInterval(is, id) ==
    [k \in DOMAIN is |-> IF k = id THEN DeadInterval ELSE is[k]]

\* beginRecording(stream), lines 358-396.  fault: where the platform throws.
BeginRecording(stream, fault) ==
    LET id == Len(recs) + 1 IN
    /\ IF fault = "construct"
       THEN UNCHANGED << recs, recorderRef >>
       ELSE /\ recorderRef' = id
            /\ recs' = Append(recs,
                 IF fault = "start"
                 THEN [st |-> "inactive", stream |-> stream, age |-> 0,
                       raf |-> FALSE, timer |-> FALSE, started |-> FALSE, runs |-> 0]
                 ELSE [st |-> "recording", stream |-> stream, age |-> 0,
                       raf |-> TRUE, timer |-> TRUE, started |-> TRUE, runs |-> 0])
    /\ IF fault = "none"
       THEN /\ status' = Set(status, "recording")
            /\ secondsLeft' = Set(secondsLeft, RecordSeconds)
            /\ stopTimerRef' = id
            /\ UNCHANGED error
       ELSE /\ error' = Set(error, Err("encoder", 0))
            /\ status' = Set(status, "error")
            /\ UNCHANGED << secondsLeft, stopTimerRef >>

\* One firing of the countdown interval of start number k, lines 344-351.
IntervalFire(k) ==
    /\ k \in DOMAIN ivs
    /\ ivs[k].armed
    /\ ivs[k].due = 0
    /\ LET rem == ivs[k].remaining - 1
           fired == [ivs EXCEPT ![k].remaining = rem, ![k].due = 1]
       IN
        /\ countdown' = Set(countdown, rem)
        /\ IF rem <= 0
           THEN /\ Calls < MaxCalls
                /\ ivs' = ClearInterval(fired, countdownTimerRef)
                /\ begins' = [begins EXCEPT ![k] = @ + 1]
                /\ \E fault \in {"none", "construct", "start"} :
                      BeginRecording(ivs[k].stream, fault)
           ELSE /\ ivs' = fired
                /\ UNCHANGED << begins, recs, recorderRef, status, secondsLeft,
                                stopTimerRef, error >>
    /\ UNCHANGED << mounted, blobUrl, recordedBlob, accuracy, chunksRef, streamRef,
                    countdownTimerRef, gums, plays, streamStops, revoked >>
    /\ UNCHANGED uploadVars

\* The animation-frame tick of recorder r, lines 382-388.
RafTick(r) ==
    /\ r \in DOMAIN recs
    /\ recs[r].raf
    /\ LET elapsed == recs[r].age
           left == Max(0, RecordSeconds - elapsed)
       IN
        /\ secondsLeft' = Set(secondsLeft, left)
        /\ recs' = Norm([recs EXCEPT ![r].raf =
                            ~(left <= 0 \/ recs[r].st # "recording")])
    /\ UNCHANGED << mounted, status, countdown, blobUrl, recordedBlob, error,
                    accuracy, recorderRef, chunksRef, streamRef, countdownTimerRef,
                    stopTimerRef, gums, plays, streamStops, ivs, begins, revoked >>
    /\ UNCHANGED uploadVars

\* ---- stop / cleanup -------------------------------------------------------

\* stop() without the test of the encoder's state: an encoder that has
\* already ended is stopped, and finalized, again.
StopRecsUnguarded(rs) ==
    Norm([r \in DOMAIN rs |->
            [rs[r] EXCEPT
               !.st = IF r = recorderRef /\ rs[r].started THEN "stopping" ELSE @,
               !.timer = IF r = stopTimerRef THEN FALSE ELSE @]])

\* stop(), lines 398-406, on the recorders and on the intervals.
StopRecs(rs) ==
    Norm([r \in DOMAIN rs |->
            [rs[r] EXCEPT
               !.st = IF r = recorderRef /\ @ = "recording" THEN "stopping" ELSE @,
               !.timer = IF r = stopTimerRef THEN FALSE ELSE @]])

StopIvs(is) == ClearInterval(is, countdownTimerRef)

\* The Stop button.
Stop ==
    /\ mounted
    /\ StopEnabled
    /\ recs' = StopRecs(recs)
    /\ ivs' = StopIvs(ivs)
    /\ UNCHANGED << mounted, uiVars, recorderRef, chunksRef, streamRef,
                    countdownTimerRef, stopTimerRef, gums, plays, streamStops, begins,
                    revoked >>
    /\ UNCHANGED uploadVars

\* The 60-second timer armed for recorder r fires, line 391.
DeadlineFire(r) ==
    /\ r \in DOMAIN recs
    /\ recs[r].timer
    /\ recs[r].age >= RecordSeconds
    /\ recs' = StopRecs([recs EXCEPT ![r].timer = FALSE])
    /\ ivs' = StopIvs(ivs)
    /\ UNCHANGED << mounted, uiVars, recorderRef, chunksRef, streamRef,
                    countdownTimerRef, stopTimerRef, gums, plays, streamStops, begins,
                    revoked >>
    /\ UNCHANGED uploadVars

\* The encoder of recorder r stops without stop() being called (its tracks
\* ended): the platform queues the same dataavailable and stop events.
EncoderSelfStop(r) ==
    /\ r \in DOMAIN recs
    /\ recs[r].st = "recording"
    /\ recs' = Norm([recs EXCEPT ![r].st = "stopping"])
    /\ UNCHANGED << mounted, uiVars, recorderRef, chunksRef, streamRef,
                    countdownTimerRef, stopTimerRef, gums, plays, streamStops, ivs,
                    begins, revoked >>
    /\ UNCHANGED uploadVars

\* The stop of recorder r completes: ondataavailable (lines 364-366) with the
\* recorded data of the given size, then onstop (lines 368-375).
Finalize(r) ==
    /\ r \in DOMAIN recs
    /\ recs[r].st = "stopping"
    /\ \E size \in {0, 1} :
        LET chunks == IF size > 0 THEN Append(chunksRef, r) ELSE chunksRef IN
        /\ chunksRef' = chunks
        /\ recordedBlob' = Set(recordedBlob, [rec |-> r, chunks |-> chunks])
    /\ blobUrl' = Set(blobUrl, r)
    /\ status' = Set(status, "finished")
    /\ secondsLeft' = Set(secondsLeft, RecordSeconds)
    /\ recs' = Norm([recs EXCEPT ![r].st = "inactive", ![r].runs = @ + 1])
    /\ UNCHANGED << mounted, countdown, error, accuracy, recorderRef, streamRef,
                    countdownTimerRef, stopTimerRef, gums, plays, streamStops, ivs,
                    begins, revoked >>
    /\ UNCHANGED uploadVars

\* The blobUrl that the cleanup registered at mount closes over, lines 309-313.
MountBlobUrl == 0

\* Stopping the tracks of a stream ends every encoder still recording it:
\* the platform stops such an encoder as in EncoderSelfStop.
TracksEnded(rs, stream) ==
    Norm([r \in DOMAIN rs |->
            IF rs[r].st = "recording" /\ rs[r].stream = stream
            THEN [rs[r] EXCEPT !.st = "stopping"] ELSE rs[r]])

\* cleanup(), lines 408-417, on the recorders, on the stop counts of the
\* streams and on the revoked URLs; stream: streamRef.current, url: the
\* blobUrl the caller's closure holds.
CleanupRecs(rs, stream) ==
    IF stream # 0 THEN TracksEnded(StopRecs(rs), stream) ELSE StopRecs(rs)

CleanupStops(ss, stream) ==
    IF stream # 0 THEN [ss EXCEPT ![stream] = @ + 1] ELSE ss

CleanupRevoked(rv, url) == IF url # 0 THEN rv \cup {url} ELSE rv

\* cleanup() without `streamRef.current = null`.
UnmountKeepsHandle ==
    /\ mounted
    /\ mounted' = FALSE
    /\ recs' = CleanupRecs(recs, streamRef)
    /\ ivs' = StopIvs(ivs)
    /\ streamStops' = CleanupStops(streamStops, streamRef)
    /\ revoked' = CleanupRevoked(revoked, MountBlobUrl)
    /\ UNCHANGED << uiVars, recorderRef, chunksRef, streamRef, countdownTimerRef,
                    stopTimerRef, gums, plays, begins >>
    /\ UNCHANGED uploadVars

\* The component unmounts: cleanup(), lines 408-417.
Unmount ==
    /\ mounted
    /\ mounted' = FALSE
    /\ recs' = CleanupRecs(recs, streamRef)
    /\ ivs' = StopIvs(ivs)
    /\ streamStops' = CleanupStops(streamStops, streamRef)
    /\ streamRef' = 0
    /\ revoked' = CleanupRevoked(revoked, MountBlobUrl)
    /\ UNCHANGED << uiVars, recorderRef, chunksRef, countdownTimerRef,
                    stopTimerRef, gums, plays, begins >>
    /\ UNCHANGED uploadVars

\* ---- time ---------------------------------------------------------------

Urgent ==
    \/ \E k \in DOMAIN ivs : ivs[k].armed /\ ivs[k].due = 0
    \/ \E r \in DOMAIN recs : recs[r].timer /\ recs[r].age >= RecordSeconds
    \/ \E r \in DOMAIN recs : recs[r].st = "stopping"

\* Time passes: one second while a countdown interval is armed, otherwise up
\* to TimeStep seconds, and never beyond the moment a deadline timer is due.
TimerGaps == {RecordSeconds - recs[r].age : r \in {q \in DOMAIN recs : recs[q].timer}}

Elapse ==
    IF \E k \in DOMAIN ivs : ivs[k].armed THEN 1
    ELSE CHOOSE d \in TimerGaps \cup {TimeStep} :
            \A e \in TimerGaps \cup {TimeStep} : d <= e

Tick ==
    /\ ~Urgent
    /\ ivs' = [k \in DOMAIN ivs |->
                 IF ivs[k].armed THEN [ivs[k] EXCEPT !.due = @ - 1] ELSE ivs[k]]
    /\ recs' = [r \in DOMAIN recs |->
                  IF ClockLive(recs[r])
                  THEN [recs[r] EXCEPT !.age = Min(@ + Elapse, RecordSeconds + 1)]
                  ELSE recs[r]]
    /\ UNCHANGED << mounted, uiVars, recorderRef, chunksRef, streamRef,
                    countdownTimerRef, stopTimerRef, gums, plays, streamStops, begins,
                    revoked >>
    /\ UNCHANGED uploadVars

\* ---- picked files -------------------------------------------------------

\* What the metadata probe of validateDurationApprox60 (lines 419-435) can
\* resolve with: el.duration in milliseconds, Infinity, or NaN on error.
Num(ms) == [kind |-> "num", ms |-> ms]
NaN == [kind |-> "nan", ms |-> 0]
Infinity == [kind |-> "inf", ms |-> 0]
Durations ==
    {NaN, Infinity} \cup
    {Num(ms) : ms \in {0, 56900, 56994, 56999, 57000, 60000, 63000, 63004, 63010, 70000}}

\* isFinite(dur)
IsFinite(d) == d.kind = "num"

\* Math.abs(x)
Abs(x) == IF x < 0 THEN -x ELSE x

\* dur.toFixed(2): the duration rounded to hundredths of a second.
ToFixed2(ms) == (ms + 5) \div 10

\* The rejection test with the tolerance bound excluded.
RejectsAtBound(d) ==
    ~IsFinite(d) \/ Abs(d.ms - 1000 * RecordSeconds) >= 1000 * ToleranceSeconds

\* The rejection test without Math.abs: only too long a file is rejected.
RejectsLongOnly(d) ==
    ~IsFinite(d) \/ d.ms - 1000 * RecordSeconds > 1000 * ToleranceSeconds

\* The rejection test of handleFilePick, line 445.
Rejects(d) == ~IsFinite(d) \/ Abs(d.ms - 1000 * RecordSeconds) > 1000 * ToleranceSeconds

\* The message of line 446: the detected duration, or -1 for "unknown".
DurationError(d) == Err("duration", IF IsFinite(d) THEN ToFixed2(d.ms) ELSE -1)

\* handleFilePick up to its await, lines 437-443; hasFile: a file was chosen.
PickFile(hasFile) ==
    /\ mounted
    /\ picked < MaxPicks
    /\ selectedFile' = 0
    /\ selectedDuration' = NoDuration
    /\ error' = NoError
    /\ IF hasFile
       THEN /\ picked' = picked + 1
            /\ probes' = probes \cup {picked + 1}
       ELSE UNCHANGED << picked, probes >>
    /\ UNCHANGED << sessionVars, accuracy, isSending, fetches >>

\* The probe of picked file f resolves with d; handleFilePick continues,
\* lines 444-449.
ProbeResolve(f, d) ==
    /\ f \in probes
    /\ probes' = probes \ {f}
    /\ selectedDuration' = Set(selectedDuration, d)
    /\ IF Rejects(d)
       THEN /\ error' = Set(error, DurationError(d))
            /\ UNCHANGED selectedFile
       ELSE /\ selectedFile' = Set(selectedFile, f)
            /\ UNCHANGED error
    /\ UNCHANGED << sessionVars, accuracy, isSending, picked, fetches >>

\* ---- upload -------------------------------------------------------------

\* What fetch can settle with: a network fault, or a response with a status
\* and a body whose probabilities field is absent (-1) or given in units of
\* 0.00001.
Outcomes ==
    {[fault |-> TRUE, code |-> 0, prob |-> -1]} \cup
    {[fault |-> FALSE, code |-> c, prob |-> pr] :
        c \in {200, 204, 404, 500}, pr \in {-1, 0, 84200, 84216, 100000}}

\* res.ok
Ok(code) == code >= 200 /\ code <= 299

\* (json.probabilities * 100).toFixed(2), in hundredths of a percent.
Score(prob) == (prob + 5) \div 10

\* send(file, sourceLabel) up to its await, lines 452-460.  file: the
\* recorder whose artifact is sent, or the picked file.
SendBegin(file, label) ==
    /\ isSending' = TRUE
    /\ error' = NoError
    /\ fetches' = fetches \cup {[file |-> file, label |-> label]}
    /\ UNCHANGED << sessionVars, accuracy, selectedFile, selectedDuration, picked, probes >>

\* The Send Recorded button, lines 474-478 and 534.
SendRecorded ==
    /\ mounted
    /\ ~isSending
    /\ recordedBlob # NoBlob
    /\ SendBegin(recordedBlob.rec, "recorded")

\* The Send Uploaded button, lines 480-483 and 553.
SendSelected ==
    /\ mounted
    /\ ~isSending
    /\ selectedFile # 0
    /\ SendBegin(selectedFile, "uploaded")

\* send() whose catch block also moves the session to 'error'.
FetchSettleToError(q, o) ==
    /\ q \in fetches
    /\ fetches' = fetches \ {q}
    /\ IF o.fault \/ ~Ok(o.code)
       THEN /\ error' = Set(error, Err("upload", o.code))
            /\ status' = Set(status, "error")
            /\ UNCHANGED accuracy
       ELSE /\ accuracy' = IF o.prob # -1 THEN Set(accuracy, Score(o.prob)) ELSE accuracy
            /\ UNCHANGED << error, status >>
    /\ isSending' = Set(isSending, FALSE)
    /\ UNCHANGED << mounted, countdown, secondsLeft, blobUrl, recordedBlob,
                    recorderRef, chunksRef, streamRef, countdownTimerRef,
                    stopTimerRef, gums, plays, streamStops, ivs, begins, recs,
                    revoked >>
    /\ UNCHANGED << selectedFile, selectedDuration, picked, probes >>

\* The fetch of upload q settles with outcome o; send() continues, lines
\* 461-471.
FetchSettle(q, o) ==
    /\ q \in fetches
    /\ fetches' = fetches \ {q}
    /\ IF o.fault \/ ~Ok(o.code)
       THEN /\ error' = Set(error, Err("upload", o.code))
            /\ UNCHANGED accuracy
       ELSE /\ accuracy' = IF o.prob # -1 THEN Set(accuracy, Score(o.prob)) ELSE accuracy
            /\ UNCHANGED error
    /\ isSending' = Set(isSending, FALSE)
    /\ UNCHANGED << sessionVars, selectedFile, selectedDuration, picked, probes >>

Next ==
    \/ OpenCamera
    \/ \E c \in Callers : GumResolve(c)
    \/ \E c \in Callers : GumReject(c)
    \/ \E p \in PlayIds : PlayResolve(p)
    \/ \E p \in PlayIds : PlayReject(p)
    \/ Start
    \/ \E k \in StartIds : IntervalFire(k)
    \/ \E r \in RecorderIds : RafTick(r)
    \/ Stop
    \/ \E r \in RecorderIds : DeadlineFire(r)
    \/ \E r \in RecorderIds : EncoderSelfStop(r)
    \/ \E r \in RecorderIds : Finalize(r)
    \/ Unmount
    \/ Tick

Spec == Init /\ [][Next]_vars

\* ---- the upload side on its own ------------------------------------------

\* The session after one complete recording: camera opened, start, countdown,
\* a recording stopped and finalized, artifact present.
AfterRecording ==
    /\ mounted = TRUE
    /\ status = "finished"
    /\ countdown = 0
    /\ secondsLeft = RecordSeconds
    /\ blobUrl = 1
    /\ recordedBlob = [rec |-> 1, chunks |-> << 1 >>]
    /\ recorderRef = 1
    /\ chunksRef = << 1 >>
    /\ streamRef = 1
    /\ countdownTimerRef = 1
    /\ stopTimerRef = 1
    /\ gums = [c \in Callers |-> 0]
    /\ plays = {}
    /\ streamStops = << 0 >>
    /\ ivs = << DeadInterval >>
    /\ begins = << 1 >>
    /\ recs = << [st |-> "inactive", stream |-> 1, age |-> 0, raf |-> FALSE,
                  timer |-> FALSE, started |-> TRUE, runs |-> 1] >>
    /\ revoked = {}

UploadInit ==
    \/ Init
    \/ /\ AfterRecording
       /\ error = NoError
       /\ accuracy = NoScore
       /\ isSending = FALSE
       /\ selectedFile = 0
       /\ selectedDuration = NoDuration
       /\ picked = 0
       /\ probes = {}
       /\ fetches = {}

UploadNext ==
    \/ \E hasFile \in BOOLEAN : PickFile(hasFile)
    \/ \E f \in FileIds, d \in Durations : ProbeResolve(f, d)
    \/ SendRecorded
    \/ SendSelected
    \/ \E q \in FetchIds, o \in Outcomes : FetchSettle(q, o)

UploadSpec == UploadInit /\ [][UploadNext]_vars

\* AfterRecording is a state of the recording session.
NotAfterRecording == ~(AfterRecording /\ error = NoError /\ accuracy = NoScore)

\* ---- claims --------------------------------------------------------------

\* C1: at most one MediaRecorder is in state 'recording' at any time.
C1_OneEncoderRecording == Cardinality(Recording) <= 1

\* C2: each start's countdown calls beginRecording at most once, and only
\* with its counter at 0 after five firings.
C2_BeginExactlyOnce ==
    \A k \in DOMAIN begins :
        /\ begins[k] <= 1
        /\ ivs[k].armed => ivs[k].remaining >= 0

\* C3: stop() pressed while status is 'countdown' cancels the pending
\* capture-begin, returns the status to 'ready' and leaves no artifact.
C3_StopInCountdownReturnsReady ==
    [][(Stop /\ status = "countdown") =>
            /\ status' = "ready"
            /\ recordedBlob' = NoBlob
            /\ \A k \in DOMAIN ivs : ~ivs'[k].armed]_vars

\* C4: while the component is mounted no encoder is recording, and the
\* status is not 'recording', more than 60 seconds after beginRecording
\* started the encoder.
C4_HardDeadline ==
    mounted =>
        /\ \A r \in DOMAIN recs :
              recs[r].st = "recording" => recs[r].age <= RecordSeconds
        /\ status = "recording" /\ recorderRef # 0 =>
              recs[recorderRef].age <= RecordSeconds

\* C5: the 60-second timer armed for one recording never stops the encoder
\* of another recording.
C5_StaleDeadlineIsNoOp ==
    [][\A r \in RecorderIds :
          DeadlineFire(r) =>
              \A q \in DOMAIN recs \ {r} : recs'[q].st = recs[q].st]_vars

\* C6: the onstop callback of every started encoder runs at most once, has
\* run exactly once when the encoder has ended, and each run (of a mounted
\* component) sets recordedBlob to that encoder's artifact and the status to
\* 'finished'; recordedBlob receives an artifact in no other way.
C6_RunsOnce ==
    \A r \in DOMAIN recs :
        /\ recs[r].runs <= 1
        /\ recs[r].st \in {"recording", "stopping"} => recs[r].started /\ recs[r].runs = 0
        /\ recs[r].st = "inactive" => recs[r].runs = (IF recs[r].started THEN 1 ELSE 0)

C6_ArtifactStep ==
    /\ \A r \in RecorderIds :
          Finalize(r) => /\ recs[r].runs = 0
                         /\ mounted => /\ recordedBlob'.rec = r
                                        /\ blobUrl' = r
                                        /\ status' = "finished"
    /\ (recordedBlob' # recordedBlob /\ recordedBlob' # NoBlob) =>
          \E r \in RecorderIds : Finalize(r)

C6_OneArtifactPerRecording == []C6_RunsOnce /\ [][C6_ArtifactStep]_vars

C6_Witness ==
    \E r \in DOMAIN recs :
        /\ recs[r].runs = 1
        /\ status = "finished"
        /\ recordedBlob.rec = r
        /\ r # stopTimerRef \/ ~recs[r].timer

\* C7: recordedBlob and blobUrl are non-null only while status is 'finished'.
C7_ArtifactOnlyInFinished ==
    (recordedBlob # NoBlob \/ blobUrl # 0) => status = "finished"

\* C8: when the probe of a picked file resolves with d, the file becomes the
\* selected file, and no error is set, if and only if d is finite and within
\* 3 seconds of 60 (bounds included); otherwise the selection is left as it
\* is and the error carries the detected duration, or 'unknown' when d is
\* not finite.
C8_Accepted(d) == d.kind = "num" /\ d.ms >= 57000 /\ d.ms <= 63000

C8_PickStep ==
    \A f \in FileIds, d \in Durations :
        ProbeResolve(f, d) =>
            IF C8_Accepted(d)
            THEN selectedFile' = f /\ error' = error
            ELSE /\ selectedFile' = selectedFile
                 /\ selectedFile' # f
                 /\ error'.kind = "duration"
                 /\ (d.kind # "num") = (error'.detail = -1)
                 /\ d.kind = "num" => 10 * error'.detail - d.ms \in -5..4

C8_FilePickAccepts == [][C8_PickStep]_vars

C8_Witness ==
    \/ selectedFile # 0 /\ selectedDuration = Num(57000) /\ error = NoError
    \/ selectedFile # 0 /\ selectedDuration = Num(63000) /\ error = NoError

\* C9 as stated: 57.0 s and 56.9 s are accepted, 63.01 s and NaN rejected.
C9_AsStated ==
    [][\A f \in FileIds, d \in Durations :
          ProbeResolve(f, d) =>
              /\ d \in {Num(57000), Num(56900)} => selectedFile' = f
              /\ d \in {Num(63010), NaN} => selectedFile' # f]_vars

\* C9 amended: 57.0 s and 63.0 s are accepted; 56.9 s, 63.01 s and NaN are
\* rejected.
C9_SymmetricAcceptance ==
    [][\A f \in FileIds, d \in Durations :
          ProbeResolve(f, d) =>
              /\ d \in {Num(57000), Num(63000)} => selectedFile' = f
              /\ d \in {Num(56900), Num(63010), NaN} =>
                    selectedFile' # f /\ error'.kind = "duration"]_vars

C9_Witness ==
    /\ selectedDuration = Num(56900)
    /\ selectedFile = 0
    /\ error = Err("duration", 5690)

\* C10: an upload that ends with a non-2xx status or a network fault reports
\* the failure in the error field, sets no score, leaves status,
\* recordedBlob and blobUrl as they are and ends with isSending false, so a
\* present artifact can be sent again; starting the upload leaves them alone
\* as well.
C10_Failed(o) == o.fault \/ o.code < 200 \/ o.code > 299

C10_SendStep ==
    /\ \A q \in FetchIds, o \in Outcomes :
          (FetchSettle(q, o) /\ C10_Failed(o)) =>
              /\ error'.kind = "upload"
              /\ accuracy' = accuracy
              /\ UNCHANGED << status, recordedBlob, blobUrl >>
              /\ ~isSending'
    /\ (SendRecorded \/ SendSelected) => UNCHANGED << status, recordedBlob, blobUrl >>

C10_FailedUploadLeavesSession == [][C10_SendStep]_vars

C10_Witness ==
    /\ error = Err("upload", 500)
    /\ status = "finished"
    /\ recordedBlob # NoBlob
    /\ ~isSending
    /\ accuracy = NoScore

\* C11: when an upload settles with a 2xx response, the score shown afterwards
\* is the score of that response: probabilities p gives p*100 rounded to two
\* decimals (0.842 gives 84.20), and a response without probabilities leaves
\* no score shown and adds no error.
C11_ScoreOfThisSend ==
    [][\A q \in FetchIds, o \in Outcomes :
          (FetchSettle(q, o) /\ ~o.fault /\ o.code \in 200..299) =>
              /\ o.prob = 84200 => accuracy' = 8420
              /\ o.prob # -1 => 10 * accuracy' - o.prob \in -5..4
              /\ o.prob = -1 => accuracy' = NoScore /\ error' = error]_vars

\* C12: cleanup() can run from every status, stops the tracks of the held
\* stream once, and leaves a state in which a second cleanup() changes
\* nothing: no recorder or interval left to stop, no stream held, no track
\* stopped again, no URL revoked again.
C12_CleanupIdempotent ==
    [][Unmount =>
          /\ CleanupRecs(recs', streamRef') = recs'
          /\ StopIvs(ivs') = ivs'
          /\ CleanupStops(streamStops', streamRef') = streamStops'
          /\ CleanupRevoked(revoked', MountBlobUrl) = revoked'
          /\ streamRef # 0 => streamStops'[streamRef] = streamStops[streamRef] + 1
          /\ \A s \in DOMAIN streamStops : streamStops'[s] <= 1]_vars

C12_Witness ==
    /\ ~mounted
    /\ status = "recording"
    /\ streamRef = 0
    /\ \E s \in DOMAIN streamStops : streamStops[s] = 1
    /\ \E r \in DOMAIN recs : recs[r].st = "stopping"

\* C13: at most one acquired stream is live (its tracks not stopped) at any
\* time, and a live stream is the one streamRef holds: no stream is acquired
\* while one is held or being acquired, and none is dropped unreleased.
C13_OneStreamHeld ==
    /\ Cardinality({s \in DOMAIN streamStops : streamStops[s] = 0}) <= 1
    /\ \A s \in DOMAIN streamStops : streamStops[s] = 0 => s = streamRef

\* C14: whenever an acquisition of the mounted component fails (getUserMedia
\* rejects or the preview's play() rejects), requested by the Open Camera
\* button or by start(), the status becomes 'error' and the error field
\* carries the failure.
C14_AcquireFailureSurfaced ==
    [][mounted =>
          /\ \A c \in Callers :
                GumReject(c) => status' = "error" /\ error' = Err("acquire", 0)
          /\ \A p \in PlayIds :
                PlayReject(p) => status' = "error" /\ error' = Err("acquire", 0)]_vars

\* C15: in status 'error' the Open Camera button or the Start button is
\* enabled, so that a fresh acquisition or start can leave the error.
C15_ErrorRecoverable ==
    (mounted /\ status = "error") => (OpenCameraEnabled \/ StartEnabled)

\* C16: once cleanup() has run, every stream the component acquired has had
\* its tracks stopped exactly once, also a stream whose acquisition was
\* still pending when cleanup ran.
C16_StreamsReleasedAfterCleanup ==
    ~mounted => \A s \in DOMAIN streamStops : streamStops[s] = 1

\* C17: once every encoder has ended and its onstop has run, no 60-second
\* timer is armed, and no countdown interval is armed unless the status is
\* 'countdown'.
C17_TimersCancelled ==
    /\ (\A r \in DOMAIN recs : recs[r].st = "inactive") =>
          \A r \in DOMAIN recs : ~recs[r].timer
    /\ status # "countdown" => \A k \in DOMAIN ivs : ~ivs[k].armed

\* C18: while the status is 'finished', secondsLeft is the 60-second budget.
C18_SecondsLeftResetWhenFinished ==
    (mounted /\ status = "finished") => secondsLeft = RecordSeconds

\* C19: every object URL created by an onstop is revoked once it is no
\* longer the current artifact's URL, and at the latest when cleanup() runs.
C19_ArtifactUrlsRevoked ==
    \A r \in DOMAIN recs :
        (recs[r].runs > 0 /\ (~mounted \/ blobUrl # r)) => r \in revoked

\* C20: a selected file is the most recently picked file, and the duration
\* recorded for it passed the check; the probe of an earlier pick never
\* decides the selection.
C20_SelectionIsLatestPick ==
    selectedFile # 0 => selectedFile = picked /\ C8_Accepted(selectedDuration)

\* C21: the artifact of a recording holds only chunks emitted by that
\* recording's own encoder: no chunk of an earlier or a concurrently started
\* encoder is in it.
C21_ArtifactFromOwnChunks ==
    \A i \in DOMAIN recordedBlob.chunks : recordedBlob.chunks[i] = recordedBlob.rec

TypeOK == status \in {"idle", "ready", "countdown", "recording", "finished", "error"}
====
